---- MODULE Spec2Model ----
(***************************************************************************)
(* Model of project/3_covid-chart/src/app.ts: the page-load summary fetch  *)
(* and the click-driven country-detail flow (handleListClick).             *)
(*                                                                         *)
(* One step of the model is one event-loop task: the delivery of a click,  *)
(* or the settlement of one network request together with the async        *)
(* continuation that runs after it (up to the next await, or to the end of *)
(* the function, or to the exception that rejects it).                     *)
(*                                                                         *)
(* A date is a day number of January 2021; a DOM text is a string.         *)
(***************************************************************************)
EXTENDS Integers, Sequences, FiniteSets

\* ---- bounds ----
MaxClicks == 2       \* clicks delivered to the rank list
MaxCountries == 1    \* records of a summary response
MaxLen == 1          \* entries of a country time series
RichLen == 2         \* entries of a series whose order is arbitrary
RichDate == 2        \* latest day of an entry of such a series
MaxPoints == 16      \* entries of a confirmed series fed to the chart
LoadCountries == 3   \* records of a summary response whose totals are arbitrary
LoadTotal == 2       \* largest total of such a record

\* ---- program constants ----
ChartWindow == 14

Undefined == "undefined"
deathSpinner == [tag |-> "div", id |-> "deaths-spinner"]
recoveredSpinner == [tag |-> "div", id |-> "recovered-spinner"]
Statuses == {"deaths", "recovered", "confirmed"}
SlugList == <<"thailand", "korea", "japan", "china">>

VARIABLES
  isDeathLoading,   \* let isDeathLoading
  confirmedTotal,   \* innerText of .confirmed-total
  deathsTotal,      \* innerText of .deaths
  recoveredTotal,   \* innerText of .recovered
  lastUpdatedTime,  \* innerText of .last-updated-time
  rankList,         \* children of .rank-list
  deathsList,       \* children of .deaths-list
  recoveredList,    \* children of .recovered-list
  charts,           \* Chart instances constructed on #lineChart
  setupPc,          \* position of setupData()
  summaryResponse,  \* <<body>> of the summary response as delivered, <<>> before
  calls,            \* invocations of handleListClick that passed the guard
  requests,         \* GET requests issued by fetchCountryInfo, in issue order;
                    \* the response bodies of the latest invocation are kept
  clicks,           \* number of click events delivered so far
  renderLog         \* DOM writes of the detail flow, in execution order

vars == <<isDeathLoading, confirmedTotal, deathsTotal, recoveredTotal,
          lastUpdatedTime, rankList, deathsList, recoveredList, charts,
          setupPc, summaryResponse, calls, requests, clicks, renderLog>>

\* ---- utilities ----
Digit == <<"0", "1", "2", "3", "4", "5", "6", "7", "8", "9">>

RECURSIVE toString(_)
toString(n) ==
  IF n < 10 THEN Digit[n + 1] ELSE toString(n \div 10) \o Digit[(n % 10) + 1]

\* new Date(date).getTime(): milliseconds, 86400000 per day
getUnixTimestamp(date) == date * 86400000

\* new Date(d).toLocaleDateString().slice(0, -1), ko-KR: "2021. 1. 5." -> "2021. 1. 5"
dateText(date) == "2021. 1. " \o toString(date)

\* new Date(d).toLocaleDateString().slice(5, -1), ko-KR: "2021. 1. 5." -> " 1. 5"
chartLabelText(date) == " 1. " \o toString(date)

\* new Date(d).toLocaleString(), ko-KR
localeString(date) == "2021. 1. " \o toString(date) \o ". 00:00:00"

\* Array.prototype.sort((a, b) => key(b) - key(a)), key[i] being the key of
\* s[i]: stable, a before b when the comparator is negative
sort(s, key) ==
  LET n == Len(s)
      cmp(i, j) == key[j] - key[i]
      rank(i) == Cardinality({j \in 1..n : \/ cmp(j, i) < 0
                                           \/ cmp(j, i) = 0 /\ j < i}) + 1
  IN [p \in 1..n |-> s[CHOOSE i \in 1..n : rank(i) = p]]

\* Array.prototype.slice(-k)
sliceLast(s, k) ==
  LET n == Len(s) IN IF n <= k THEN s ELSE SubSeq(s, n - k + 1, n)

\* Array.prototype.reduce((total, current) => total + f(current), 0)
RECURSIVE reduceSum(_, _)
reduceSum(s, field) ==
  IF s = <<>> THEN 0 ELSE s[1][field] + reduceSum(Tail(s), field)

\* node.appendChild(child): a child that is already in the list is moved
appendChild(list, child) ==
  Append(SelectSeq(list, LAMBDA e : e # child), child)

hasChild(list, child) == \E i \in 1..Len(list) : list[i] = child

removeChild(list, child) == SelectSeq(list, LAMBDA e : e # child)

\* ---- inputs ----
SeqsUpTo(S, n) == UNION {[1..k -> S] : k \in 0..n}

\* a series of n daily entries in ascending date order
chronological(n) == [i \in 1..n |-> [Date |-> i, Cases |-> i]]

\* the series an endpoint returns for a country: up to MaxLen daily entries
Series == {chronological(n) : n \in 0..MaxLen}

\* series of up to RichLen entries whose dates come in any order, repeated
\* dates included; the count of an entry tells its place in the response
RichSeries ==
  UNION {{[i \in 1..n |-> [Date |-> dates[i], Cases |-> i]] :
            dates \in [1..n -> 1..RichDate]} : n \in 0..RichLen}

\* the summary record of the k-th country; its totals exceed the counts of
\* a daily entry of Series
Countries ==
  {[Slug |-> SlugList[k], TotalConfirmed |-> MaxLen + 3 * k,
    TotalDeaths |-> MaxLen + k, TotalRecovered |-> MaxLen + 2 * k] :
     k \in 1..MaxCountries}

Summaries ==
  {[Countries |-> cs, Date |-> 1] :
     cs \in {s \in SeqsUpTo(Countries, MaxCountries) :
               \A i, j \in 1..Len(s) : i # j => s[i].Slug # s[j].Slug}}

\* summary responses of n records with any confirmed and deaths totals, equal
\* ones included; the recovered total follows from the two and the slug of a
\* record tells its place in the response
RichSummaries(n) ==
  {[Countries |-> [i \in 1..n |->
                    [Slug |-> SlugList[i],
                     TotalConfirmed |-> totals[i][1],
                     TotalDeaths |-> totals[i][2],
                     TotalRecovered |-> totals[i][1] + totals[i][2] + 1]],
    Date |-> 1] :
     totals \in [1..n -> (0..LoadTotal) \X (0..LoadTotal)]}

\* ---- the click handler's view of the page ----
\* The page state handleListClick reads and writes, with the locals of the
\* invocation `call`; threw is set when a statement has thrown.
Frame(call, selectedId) ==
  [isDeathLoading |-> isDeathLoading,
   deathsList |-> deathsList, recoveredList |-> recoveredList,
   deathsTotal |-> deathsTotal, recoveredTotal |-> recoveredTotal,
   charts |-> charts, requests |-> requests, renderLog |-> renderLog,
   call |-> call, selectedId |-> selectedId,
   deathResponse |-> IF call \in DOMAIN calls THEN calls[call].deathResponse ELSE <<>>,
   recoveredResponse |-> IF call \in DOMAIN calls THEN calls[call].recoveredResponse ELSE <<>>,
   confirmedResponse |-> <<>>,
   threw |-> FALSE]

throw(st) == [st EXCEPT !.threw = TRUE]

logRender(st, step) ==
  [st EXCEPT !.renderLog = Append(@, [call |-> st.call, step |-> step])]

fetchCountryInfo(st, status) ==
  [st EXCEPT !.requests =
     Append(@, [call |-> st.call, countryCode |-> st.selectedId,
                status |-> status, state |-> "pending", data |-> <<>>])]

\* variant: the comparator of lines 86-88 with its operands exchanged
byDate_asc(data) == [i \in 1..Len(data) |-> 0 - getUnixTimestamp(data[i].Date)]

\* the comparator (a, b) => getUnixTimestamp(b.Date) - getUnixTimestamp(a.Date)
byDate(data) == [i \in 1..Len(data) |-> getUnixTimestamp(data[i].Date)]

detailItem(value) ==
  [tag |-> "li", span |-> toString(value.Cases), p |-> dateText(value.Date)]

\* data.sort(...) sorts the response array in place: the caller's
\* deathResponse is the sorted array afterwards
setDeathsList(st) ==
  LET sorted == sort(st.deathResponse, byDate(st.deathResponse))
  IN logRender([st EXCEPT !.deathResponse = sorted,
                          !.deathsList = @ \o [i \in 1..Len(sorted) |-> detailItem(sorted[i])]],
               "deathsList")

\* variant: line 69 left out, the deaths list is not emptied
clearDeathList_keep(st) == st

clearDeathList(st) == [st EXCEPT !.deathsList = <<>>]

\* data[0].Cases of an empty array is a TypeError
setTotalDeathsByCountry(st) ==
  IF st.deathResponse = <<>>
    THEN throw(st)
    ELSE logRender([st EXCEPT !.deathsTotal = toString(st.deathResponse[1].Cases)],
                   "deathsTotal")

setRecoveredList(st) ==
  LET sorted == sort(st.recoveredResponse, byDate(st.recoveredResponse))
  IN logRender([st EXCEPT !.recoveredResponse = sorted,
                          !.recoveredList = @ \o [i \in 1..Len(sorted) |-> detailItem(sorted[i])]],
               "recoveredList")

clearRecoveredList(st) == [st EXCEPT !.recoveredList = <<>>]

setTotalRecoveredByCountry(st) ==
  IF st.recoveredResponse = <<>>
    THEN throw(st)
    ELSE logRender([st EXCEPT !.recoveredTotal = toString(st.recoveredResponse[1].Cases)],
                   "recoveredTotal")

\* variant: line 131 left out, no spinner in the recovered list
startLoadingAnimation_deathsOnly(st) ==
  [st EXCEPT !.deathsList = appendChild(@, deathSpinner)]

startLoadingAnimation(st) ==
  [st EXCEPT !.deathsList = appendChild(@, deathSpinner),
             !.recoveredList = appendChild(@, recoveredSpinner)]

\* removeChild of a node that is not a child throws NotFoundError
endLoadingAnimation(st) ==
  IF ~hasChild(st.deathsList, deathSpinner)
    THEN throw(st)
    ELSE IF ~hasChild(st.recoveredList, recoveredSpinner)
      THEN throw([st EXCEPT !.deathsList = removeChild(@, deathSpinner)])
      ELSE [st EXCEPT !.deathsList = removeChild(@, deathSpinner),
                      !.recoveredList = removeChild(@, recoveredSpinner)]

\* new Chart(ctx, ...): one more instance on the canvas
renderChart(st, data, labels) ==
  logRender([st EXCEPT !.charts = Append(@, [data |-> data, labels |-> labels])],
            "chart")

\* data.map((value) => value.Cases)
mapCases(data) == [i \in 1..Len(data) |-> data[i].Cases]

\* data.map((value) => new Date(value.Date).toLocaleDateString().slice(5, -1))
mapLabels(data) == [i \in 1..Len(data) |-> chartLabelText(data[i].Date)]

setChartData_first(st) ==
  LET n == Len(st.confirmedResponse)
      head == IF n <= ChartWindow THEN st.confirmedResponse
              ELSE SubSeq(st.confirmedResponse, 1, ChartWindow)
  IN renderChart(st, mapCases(head), mapLabels(head))

setChartData(st) ==
  LET chartData == mapCases(sliceLast(st.confirmedResponse, ChartWindow))
      chartLabel == mapLabels(sliceLast(st.confirmedResponse, ChartWindow))
  IN renderChart(st, chartData, chartLabel)

\* ---- handleListClick ----
\* The elements a click on the rank list can hit: the <ol> itself, an <li>,
\* or the <span> / <p> of an <li> (index = position of the <li>).
Targets ==
  {[tag |-> "ol", item |-> 0]} \cup
  [tag : {"li", "span", "p"}, item : 1..Len(rankList)]

selectedIdOf(target) ==
  IF target.tag \in {"p", "span"} THEN rankList[target.item].id
  ELSE IF target.tag = "li" THEN rankList[target.item].id
  ELSE Undefined

isBusy_never(st) == FALSE

\* if (isDeathLoading) return;
isBusy(st) == st.isDeathLoading

setLoading_skip(st) == st

\* isDeathLoading = true;
setLoading(st) == [st EXCEPT !.isDeathLoading = TRUE]

firstFetch_all(st) ==
  fetchCountryInfo(fetchCountryInfo(fetchCountryInfo(st, "deaths"), "recovered"),
                   "confirmed")

\* await fetchCountryInfo(selectedId, CovidStatus.Deaths): the request is
\* issued and the function suspends
firstFetch(st) == fetchCountryInfo(st, "deaths")

\* from the guard to the first await
handleListClickStart(st) ==
  firstFetch(setLoading(startLoadingAnimation(clearRecoveredList(clearDeathList(st)))))

resumeAfterDeaths_eager(st, data) ==
  fetchCountryInfo(setDeathsList([st EXCEPT !.deathResponse = data]), "recovered")

\* const { data: deathResponse } = <response>; then the second await
resumeAfterDeaths(st, data) ==
  fetchCountryInfo([st EXCEPT !.deathResponse = data], "recovered")

\* const { data: recoveredResponse } = <response>; then the third await
resumeAfterRecovered(st, data) ==
  fetchCountryInfo([st EXCEPT !.recoveredResponse = data], "confirmed")

clearLoading(st) == [st EXCEPT !.isDeathLoading = FALSE]

\* variant: lines 77 and 78 exchanged, the deaths counter written before
\* the deaths list
resumeAfterConfirmed_counterFirst(st, data) ==
  LET s0 == [st EXCEPT !.confirmedResponse = data]
      s1 == endLoadingAnimation(s0)
      s2 == IF s1.threw THEN s1 ELSE setTotalDeathsByCountry(s1)
      s3 == IF s2.threw THEN s2 ELSE setDeathsList(s2)
      s4 == IF s3.threw THEN s3 ELSE setRecoveredList(s3)
      s5 == IF s4.threw THEN s4 ELSE setTotalRecoveredByCountry(s4)
      s6 == IF s5.threw THEN s5 ELSE setChartData(s5)
  IN IF s6.threw THEN s6 ELSE clearLoading(s6)

\* const { data: confirmedResponse } = <response>; then the render steps
resumeAfterConfirmed(st, data) ==
  LET s0 == [st EXCEPT !.confirmedResponse = data]
      s1 == endLoadingAnimation(s0)
      s2 == IF s1.threw THEN s1 ELSE setDeathsList(s1)
      s3 == IF s2.threw THEN s2 ELSE setTotalDeathsByCountry(s2)
      s4 == IF s3.threw THEN s3 ELSE setRecoveredList(s3)
      s5 == IF s4.threw THEN s4 ELSE setTotalRecoveredByCountry(s4)
      s6 == IF s5.threw THEN s5 ELSE setChartData(s5)
  IN IF s6.threw THEN s6 ELSE clearLoading(s6)

\* ---- setupData ----
\* the comparator (a, b) => b.TotalConfirmed - a.TotalConfirmed
\* variant: the comparator of line 211 with its operands exchanged
byConfirmed_asc(countries) ==
  [i \in 1..Len(countries) |-> 0 - countries[i].TotalConfirmed]

byConfirmed(countries) == [i \in 1..Len(countries) |-> countries[i].TotalConfirmed]

rankItem(value) ==
  [tag |-> "li", id |-> value.Slug,
   span |-> toString(value.TotalConfirmed), p |-> value.Slug]

setTotalConfirmedNumber(data) == toString(reduceSum(data.Countries, "TotalConfirmed"))

\* variant: the deaths reducer adding up the confirmed totals
setTotalDeathsByWorld_confirmed(data) ==
  toString(reduceSum(data.Countries, "TotalConfirmed"))

setTotalDeathsByWorld(data) == toString(reduceSum(data.Countries, "TotalDeaths"))

setTotalRecoveredByWorld(data) == toString(reduceSum(data.Countries, "TotalRecovered"))

setCountryRanksByConfirmedCases(list, data) ==
  LET sorted == sort(data.Countries, byConfirmed(data.Countries))
  IN list \o [i \in 1..Len(sorted) |-> rankItem(sorted[i])]

setLastUpdatedTimestamp(data) == localeString(data.Date)

\* ---- initial state: startApp() has run to the await of setupData ----
Init ==
  /\ isDeathLoading = FALSE
  /\ confirmedTotal = ""
  /\ deathsTotal = ""
  /\ recoveredTotal = ""
  /\ lastUpdatedTime = ""
  /\ rankList = <<>>
  /\ deathsList = <<>>
  /\ recoveredList = <<>>
  /\ charts = <<>>
  /\ setupPc = "awaitSummary"
  /\ summaryResponse = <<>>
  /\ calls = <<>>
  /\ requests = <<>>
  /\ clicks = 0
  /\ renderLog = <<>>

\* ---- actions ----
\* the summary response arrives: setupData runs to its end
SummaryResolved(data) ==
  /\ setupPc = "awaitSummary"
  /\ setupPc' = "done"
  /\ summaryResponse' = <<data>>
  /\ confirmedTotal' = setTotalConfirmedNumber(data)
  /\ deathsTotal' = setTotalDeathsByWorld(data)
  /\ recoveredTotal' = setTotalRecoveredByWorld(data)
  /\ rankList' = setCountryRanksByConfirmedCases(rankList, data)
  /\ lastUpdatedTime' = setLastUpdatedTimestamp(data)
  /\ UNCHANGED <<isDeathLoading, deathsList, recoveredList, charts, calls,
                 requests, clicks, renderLog>>

\* the summary request fails: setupData rejects, nothing is rendered
SummaryRejected ==
  /\ setupPc = "awaitSummary"
  /\ setupPc' = "rejected"
  /\ UNCHANGED <<isDeathLoading, confirmedTotal, deathsTotal, recoveredTotal,
                 lastUpdatedTime, rankList, deathsList, recoveredList, charts,
                 summaryResponse, calls, requests, clicks, renderLog>>

\* the page state the click handler leaves behind
Commit(st) ==
  /\ isDeathLoading' = st.isDeathLoading
  /\ deathsList' = st.deathsList
  /\ recoveredList' = st.recoveredList
  /\ deathsTotal' = st.deathsTotal
  /\ recoveredTotal' = st.recoveredTotal
  /\ charts' = st.charts
  /\ renderLog' = st.renderLog
  /\ UNCHANGED <<confirmedTotal, lastUpdatedTime, rankList, setupPc,
                 summaryResponse>>

\* the request log without the response bodies
withoutBodies(reqs) == [i \in 1..Len(reqs) |-> [reqs[i] EXCEPT !.data = <<>>]]

\* what the detail part of the page shows: both lists, both counters, the
\* chart instances, and whether the summary has been rendered
Page ==
  [deathsList |-> deathsList, recoveredList |-> recoveredList,
   deathsTotal |-> deathsTotal, recoveredTotal |-> recoveredTotal,
   charts |-> charts, setupPc |-> setupPc]

\* a click event on the rank list: handleListClick up to its return or
\* its first await; an accepted invocation remembers, until its render ends,
\* the page it was started on
Click(target) ==
  /\ clicks < MaxClicks
  /\ clicks' = clicks + 1
  /\ LET st == [Frame(Len(calls) + 1, selectedIdOf(target))
                 EXCEPT !.requests = withoutBodies(requests)]
     IN IF isBusy(st)
          THEN UNCHANGED <<isDeathLoading, confirmedTotal, deathsTotal,
                           recoveredTotal, lastUpdatedTime, rankList, deathsList,
                           recoveredList, charts, setupPc, summaryResponse,
                           calls, requests, renderLog>>
          ELSE LET s == handleListClickStart(st)
               IN /\ Commit(s)
                  /\ requests' = s.requests
                  /\ calls' = Append(calls, [selectedId |-> st.selectedId,
                                             pc |-> "awaitDeaths",
                                             before |-> <<Page>>,
                                             deathResponse |-> <<>>,
                                             recoveredResponse |-> <<>>])

\* request i is the one invocation c is suspended on
Awaited(c, i, pc, status) ==
  /\ c \in DOMAIN calls
  /\ calls[c].pc = pc
  /\ i \in DOMAIN requests
  /\ requests[i].call = c
  /\ requests[i].status = status
  /\ requests[i].state = "pending"

settle(reqs, i, state, data) ==
  [reqs EXCEPT ![i] = [@ EXCEPT !.state = state, !.data = data]]

\* the deaths response arrives: line 73 completes, line 74 suspends
DeathsResolved(c, i, data) ==
  /\ Awaited(c, i, "awaitDeaths", "deaths")
  /\ LET s == resumeAfterDeaths(Frame(c, calls[c].selectedId), data)
     IN /\ Commit(s)
        /\ requests' = settle(s.requests, i, "resolved", data)
        /\ calls' = [calls EXCEPT ![c] = [@ EXCEPT !.pc = "awaitRecovered",
                                                   !.deathResponse = s.deathResponse]]
  /\ UNCHANGED clicks

\* the recovered response arrives: line 74 completes, line 75 suspends
RecoveredResolved(c, i, data) ==
  /\ Awaited(c, i, "awaitRecovered", "recovered")
  /\ LET s == resumeAfterRecovered(Frame(c, calls[c].selectedId), data)
     IN /\ Commit(s)
        /\ requests' = settle(s.requests, i, "resolved", data)
        /\ calls' = [calls EXCEPT ![c] = [@ EXCEPT !.pc = "awaitConfirmed",
                                                   !.recoveredResponse = s.recoveredResponse]]
  /\ UNCHANGED clicks

\* the confirmed response arrives: lines 75-82 run to the end of the
\* function or to the statement that throws
ConfirmedResolved(c, i, data) ==
  /\ Awaited(c, i, "awaitConfirmed", "confirmed")
  /\ LET s == resumeAfterConfirmed(Frame(c, calls[c].selectedId), data)
     IN /\ Commit(s)
        /\ requests' = settle(s.requests, i, "resolved", data)
        /\ calls' = [calls EXCEPT ![c] =
                       [@ EXCEPT !.pc = IF s.threw THEN "threw" ELSE "done",
                                 !.before = <<>>,
                                 !.deathResponse = <<>>,
                                 !.recoveredResponse = <<>>]]
  /\ UNCHANGED clicks

\* the awaited request fails: the await throws, handleListClick rejects
FetchRejected(c, i) ==
  /\ \E pc \in {"awaitDeaths", "awaitRecovered", "awaitConfirmed"},
        status \in Statuses : Awaited(c, i, pc, status)
  /\ requests' = settle(requests, i, "rejected", <<>>)
  /\ calls' = [calls EXCEPT ![c] = [@ EXCEPT !.pc = "rejected",
                                             !.deathResponse = <<>>,
                                             !.recoveredResponse = <<>>]]
  /\ UNCHANGED <<isDeathLoading, confirmedTotal, deathsTotal, recoveredTotal,
                 lastUpdatedTime, rankList, deathsList, recoveredList, charts,
                 setupPc, summaryResponse, clicks, renderLog>>

Next ==
  \/ \E data \in Summaries : SummaryResolved(data)
  \/ SummaryRejected
  \/ \E target \in Targets : Click(target)
  \/ \E c \in DOMAIN calls, i \in DOMAIN requests,
        data \in Series : DeathsResolved(c, i, data)
  \/ \E c \in DOMAIN calls, i \in DOMAIN requests,
        data \in Series : RecoveredResolved(c, i, data)
  \/ \E c \in DOMAIN calls, i \in DOMAIN requests,
        data \in Series : ConfirmedResolved(c, i, data)
  \/ \E c \in DOMAIN calls, i \in DOMAIN requests : FetchRejected(c, i)

Spec == Init /\ [][Next]_vars

\* ---- the same program with the inputs the data-shaping claims need ----
\* the first click's sequence, with deaths and recovered series whose
\* entries arrive in any order
FirstClick(target) == calls = <<>> /\ Click(target)

NextDetail ==
  \/ \E data \in Summaries : SummaryResolved(data)
  \/ SummaryRejected
  \/ \E target \in Targets : FirstClick(target)
  \/ \E c \in DOMAIN calls, i \in DOMAIN requests,
        data \in RichSeries : DeathsResolved(c, i, data)
  \/ \E c \in DOMAIN calls, i \in DOMAIN requests,
        data \in RichSeries : RecoveredResolved(c, i, data)
  \/ \E c \in DOMAIN calls, i \in DOMAIN requests,
        data \in Series : ConfirmedResolved(c, i, data)
  \/ \E c \in DOMAIN calls, i \in DOMAIN requests : FetchRejected(c, i)

SpecDetail == Init /\ [][NextDetail]_vars

\* confirmed series of up to MaxPoints daily entries: chronological (k = 0),
\* rotated by k, or newest first
rotate(s, k) == SubSeq(s, k + 1, Len(s)) \o SubSeq(s, 1, k)

reverse(s) == [i \in 1..Len(s) |-> s[Len(s) + 1 - i]]

ConfirmedSeries ==
  UNION {{rotate(chronological(n), k) : k \in 0..n} : n \in 0..MaxPoints} \cup
  {reverse(chronological(n)) : n \in 0..MaxPoints}

NextChart ==
  \/ \E data \in Summaries : SummaryResolved(data)
  \/ SummaryRejected
  \/ \E target \in Targets : FirstClick(target)
  \/ \E c \in DOMAIN calls, i \in DOMAIN requests,
        data \in Series : DeathsResolved(c, i, data)
  \/ \E c \in DOMAIN calls, i \in DOMAIN requests,
        data \in Series : RecoveredResolved(c, i, data)
  \/ \E c \in DOMAIN calls, i \in DOMAIN requests,
        data \in ConfirmedSeries : ConfirmedResolved(c, i, data)
  \/ \E c \in DOMAIN calls, i \in DOMAIN requests : FetchRejected(c, i)

SpecChart == Init /\ [][NextChart]_vars

\* the page load alone, with summary responses of arbitrary totals
NextLoad ==
  \/ /\ setupPc = "awaitSummary"
     /\ \E n \in 0..LoadCountries : \E data \in RichSummaries(n) :
          SummaryResolved(data)
  \/ SummaryRejected

SpecLoad == Init /\ [][NextLoad]_vars

\* ---- vocabulary of the claims ----
AwaitPcs == {"awaitDeaths", "awaitRecovered", "awaitConfirmed"}

InFlight == {c \in DOMAIN calls : calls[c].pc \in AwaitPcs}

Pending == {i \in DOMAIN requests : requests[i].state = "pending"}

\* the request of invocation c for a status, as the network delivered it
RequestsOf(c, status) ==
  {i \in DOMAIN requests : requests[i].call = c /\ requests[i].status = status}

\* invocation c was started by a click on a rank-list entry (the <li> or its
\* <span> or <p>), as the claims about an accepted click suppose
OnEntry(c) ==
  \E k \in DOMAIN rankList : rankList[k].id = calls[c].selectedId

isListItem(e) == e.tag = "li"

ListItems(list) == SelectSeq(list, isListItem)

\* the step settles the last request of invocation c with a response
CompletesFetches(c) ==
  /\ c \in DOMAIN calls
  /\ calls[c].pc = "awaitConfirmed"
  /\ calls'[c].pc \in {"done", "threw"}

\* ---- C1 ----
\* C1: a click delivered while isDeathLoading is true issues no request,
\* leaves both detail lists as they are and leaves the flag true.
C1_OverlapGuard ==
  [][(isDeathLoading /\ clicks' = clicks + 1) =>
       /\ requests' = requests
       /\ deathsList' = deathsList
       /\ recoveredList' = recoveredList
       /\ isDeathLoading']_vars

\* a click has been ignored while the first click's fetch is outstanding
C1_Witness ==
  /\ isDeathLoading
  /\ clicks > Len(calls)
  /\ InFlight # {}
  /\ Pending # {}

\* ---- C2 ----
\* C2: in every reachable state at most one invocation of handleListClick
\* is past its guard and not yet finished.
C2_AtMostOneInFlight == Cardinality(InFlight) <= 1

\* a second sequence is in flight after the first one has finished
C2_Witness ==
  /\ Len(calls) = 2
  /\ calls[1].pc = "done"
  /\ calls[2].pc \in AwaitPcs

\* ---- C3 ----
\* C3: between event-loop steps, isDeathLoading is true if and only if a
\* request of an accepted click (on a rank-list entry) is outstanding.
C3_FlagIffOutstanding ==
  (\A c \in DOMAIN calls : OnEntry(c)) => (isDeathLoading <=> Pending # {})

C5_FailureReturnsToIdle ==
  [][\A c \in DOMAIN calls :
       (OnEntry(c) /\ calls[c].pc \in AwaitPcs /\ calls'[c].pc = "rejected") =>
         ~isDeathLoading']_vars

\* ---- C6 ----
\* C6: when the three fetches of an accepted click (on a rank-list entry)
\* have all resolved, whatever the responses hold, the spinners are removed
\* and the loading flag is false.
C6_ResolvedReturnsToIdle ==
  [][\A c \in DOMAIN calls :
       (OnEntry(c) /\ CompletesFetches(c)) =>
         /\ ~isDeathLoading'
         /\ ~hasChild(deathsList', deathSpinner)
         /\ ~hasChild(recoveredList', recoveredSpinner)]_vars

\* ---- C7 ----
\* C7: every render step of a click (list, counter, chart) runs only after
\* the click's three requests have resolved, and while a click's sequence
\* is in flight neither detail list holds a list item.
C7_RenderAfterAllResolved ==
  /\ \A k \in DOMAIN renderLog :
       \A status \in Statuses :
         \E i \in RequestsOf(renderLog[k].call, status) :
           requests[i].state = "resolved"
  /\ InFlight # {} =>
       /\ ListItems(deathsList) = <<>>
       /\ ListItems(recoveredList) = <<>>

\* a click's sequence has finished and its lists and chart are rendered
C7_Witness ==
  \E c \in DOMAIN calls :
    /\ calls[c].pc = "done"
    /\ ListItems(deathsList) # <<>>
    /\ ListItems(recoveredList) # <<>>
    /\ \E k \in DOMAIN renderLog : renderLog[k] = [call |-> c, step |-> "chart"]

\* ---- C8 ----
\* C8: the requests of one click carry the same key, and every key is the
\* id of a rendered rank-list item.
C8_KeysAreRankItemIds ==
  \A i \in DOMAIN requests :
    /\ \E k \in DOMAIN rankList : rankList[k].id = requests[i].countryCode
    /\ \A j \in DOMAIN requests :
         requests[j].call = requests[i].call =>
           requests[j].countryCode = requests[i].countryCode

\* ---- C9 ----
\* text is the count of an entry of payload that no other entry is newer than
IsNewestCount(payload, text) ==
  \E k \in DOMAIN payload :
    /\ \A j \in DOMAIN payload : payload[j].Date <= payload[k].Date
    /\ text = toString(payload[k].Cases)

\* C9: when the three fetches of a click (on a rank-list entry) have
\* resolved, the deaths counter shows the count of the newest entry of the
\* deaths response and the recovered counter the count of the newest entry
\* of the recovered response, in whatever order the entries arrived.
C9_CountersShowNewestCount ==
  [][\A c \in DOMAIN calls :
       (OnEntry(c) /\ CompletesFetches(c)) =>
         /\ \A i \in RequestsOf(c, "deaths") :
              requests[i].data # <<>> => IsNewestCount(requests[i].data, deathsTotal')
         /\ \A i \in RequestsOf(c, "recovered") :
              requests[i].data # <<>> => IsNewestCount(requests[i].data, recoveredTotal')]_vars

\* ---- C10 ----
IsChronological(payload) ==
  \A j \in 1..(Len(payload) - 1) : payload[j].Date < payload[j + 1].Date

WindowSize(payload) == IF Len(payload) < ChartWindow THEN Len(payload) ELSE ChartWindow

\* the counts of the WindowSize most recent entries, oldest first
MostRecentCounts(payload) ==
  LET newestFirst == sort(payload, byDate(payload))
      m == WindowSize(payload)
  IN [k \in 1..m |-> newestFirst[m + 1 - k].Cases]

\* the counts of the last WindowSize entries, in the order of the response
LastCounts(payload) ==
  LET m == WindowSize(payload)
  IN [k \in 1..m |-> payload[Len(payload) - m + k].Cases]

\* the step draws a chart from the confirmed response that request i delivers
DrawsChartFrom(i) ==
  /\ requests[i].status = "confirmed"
  /\ requests[i].state = "pending"
  /\ requests'[i].state = "resolved"
  /\ Len(charts') = Len(charts) + 1

\* C10 (as claimed): the chart receives the counts of the min(14, n) entries
\* with the most recent dates, in ascending date order, whatever the order
\* of the response (of a click on a rank-list entry).
C10_ChartShowsMostRecent ==
  [][\A i \in DOMAIN requests :
       (DrawsChartFrom(i) /\ OnEntry(requests[i].call)) =>
         charts'[Len(charts')].data = MostRecentCounts(requests'[i].data)]_vars

\* C10 (amended): the chart receives exactly min(14, n) points, the last
\* min(14, n) entries of the response in the order of the response; they are
\* the most recent entries in ascending date order when the response is in
\* ascending date order.
C10_ChartShowsLastOfResponse ==
  [][\A i \in DOMAIN requests :
       DrawsChartFrom(i) =>
         LET payload == requests'[i].data
             chart == charts'[Len(charts')]
         IN /\ Len(chart.data) = WindowSize(payload)
            /\ Len(chart.labels) = WindowSize(payload)
            /\ chart.data = LastCounts(payload)
            /\ IsChronological(payload) => chart.data = MostRecentCounts(payload)]_vars

\* a chart of 14 points has been drawn from a longer response that is not
\* in ascending date order
C10_Witness ==
  \E i \in DOMAIN requests :
    /\ requests[i].status = "confirmed"
    /\ requests[i].state = "resolved"
    /\ Len(requests[i].data) > ChartWindow
    /\ ~IsChronological(requests[i].data)
    /\ Len(charts) = 1
    /\ Len(charts[1].data) = ChartWindow
    /\ charts[1].data = LastCounts(requests[i].data)

\* ---- order of the rendered lists ----

\* the ways of laying n entries out in a list
Permutations(n) ==
  {f \in [1..n -> 1..n] : \A i, j \in 1..n : f[i] = f[j] => i = j}

\* place[k] is the place in the input of the k-th item shown: the keys of the
\* items shown never increase, and items of equal key keep their input order
StableDescending(keys, place) ==
  \A k, l \in DOMAIN place :
    k < l => \/ keys[place[k]] > keys[place[l]]
             \/ keys[place[k]] = keys[place[l]] /\ place[k] < place[l]

\* C11: once the summary response is rendered, the rank list holds exactly one
\* item per country record, with the record's slug as its id and its confirmed
\* total as its count, in non-increasing order of confirmed total, records of
\* equal total in the order of the response.
C11_RankListStableDescending ==
  setupPc = "done" =>
    LET cs == summaryResponse[1].Countries
    IN /\ Len(rankList) = Len(cs)
       /\ \E place \in Permutations(Len(cs)) :
            /\ \A k \in 1..Len(cs) :
                 /\ rankList[k].tag = "li"
                 /\ rankList[k].id = cs[place[k]].Slug
                 /\ rankList[k].span = toString(cs[place[k]].TotalConfirmed)
            /\ StableDescending([i \in 1..Len(cs) |-> cs[i].TotalConfirmed], place)

\* a response whose first record has the smallest total and whose other two
\* records tie: the tie is shown first, in the order of the response
C11_Witness ==
  /\ setupPc = "done"
  /\ Len(rankList) = 3
  /\ LET cs == summaryResponse[1].Countries
     IN /\ cs[1].TotalConfirmed < cs[2].TotalConfirmed
        /\ cs[2].TotalConfirmed = cs[3].TotalConfirmed
        /\ <<rankList[1].id, rankList[2].id, rankList[3].id>>
             = <<cs[2].Slug, cs[3].Slug, cs[1].Slug>>

\* the items are one per entry of the response body, each showing its entry's
\* count and date, newest date first, entries of equal date in the order of
\* the response
ShowsNewestFirst(items, body) ==
  /\ Len(items) = Len(body)
  /\ \E place \in Permutations(Len(body)) :
       /\ \A k \in 1..Len(body) :
            /\ items[k].tag = "li"
            /\ items[k].span = toString(body[place[k]].Cases)
            /\ items[k].p = dateText(body[place[k]].Date)
       /\ StableDescending([i \in 1..Len(body) |-> body[i].Date], place)

\* the last n elements of a list
Appended(list, n) == SubSeq(list, Len(list) - n + 1, Len(list))

\* C12: whenever setDeathsList or setRecoveredList runs on a response, it
\* appends to its list exactly one item per entry of the response, in
\* non-increasing date order, entries of equal date in the order of the
\* response.
C12_DetailListsStableDescending ==
  [][\A c \in DOMAIN calls :
       CompletesFetches(c) =>
         /\ (\E k \in DOMAIN renderLog' :
                renderLog'[k] = [call |-> c, step |-> "deathsList"])
            => /\ Len(deathsList') = Len(deathsList) - 1 + Len(calls[c].deathResponse)
               /\ ShowsNewestFirst(Appended(deathsList', Len(calls[c].deathResponse)),
                                   calls[c].deathResponse)
         /\ (\E k \in DOMAIN renderLog' :
                renderLog'[k] = [call |-> c, step |-> "recoveredList"])
            => /\ Len(recoveredList') = Len(recoveredList) - 1 + Len(calls[c].recoveredResponse)
               /\ ShowsNewestFirst(Appended(recoveredList', Len(calls[c].recoveredResponse)),
                                   calls[c].recoveredResponse)]_vars

\* both lists were rendered from responses that arrived oldest first: each
\* list shows the later entry on top
C12_Witness ==
  \E c \in DOMAIN calls :
    /\ calls[c].pc = "done"
    /\ \E i \in RequestsOf(c, "deaths") :
         /\ Len(requests[i].data) = 2
         /\ requests[i].data[1].Date < requests[i].data[2].Date
         /\ Len(deathsList) = 2
         /\ deathsList[1].span = toString(requests[i].data[2].Cases)
    /\ \E i \in RequestsOf(c, "recovered") :
         /\ Len(requests[i].data) = 2
         /\ requests[i].data[1].Date < requests[i].data[2].Date
         /\ Len(recoveredList) = 2
         /\ recoveredList[1].span = toString(requests[i].data[2].Cases)

\* ---- the world counters ----

RECURSIVE Total(_, _)
\* the sum of a field over the records of a response, 0 for no record
Total(cs, field) ==
  IF cs = <<>> THEN 0
  ELSE Total(SubSeq(cs, 1, Len(cs) - 1), field) + cs[Len(cs)][field]

\* C13: the step that renders the summary response sets the confirmed, deaths
\* and recovered counters to the sums of TotalConfirmed, TotalDeaths and
\* TotalRecovered over all records of the response, 0 each for no record.
C13_WorldCountersAreSums ==
  [][(setupPc = "awaitSummary" /\ setupPc' = "done") =>
       LET cs == summaryResponse'[1].Countries
       IN /\ confirmedTotal' = toString(Total(cs, "TotalConfirmed"))
          /\ deathsTotal' = toString(Total(cs, "TotalDeaths"))
          /\ recoveredTotal' = toString(Total(cs, "TotalRecovered"))
          /\ cs = <<>> => /\ confirmedTotal' = "0"
                          /\ deathsTotal' = "0"
                          /\ recoveredTotal' = "0"]_vars

\* two records (1, 0, 2) and (2, 1, 4) were rendered as 3, 1 and 6
C13_Witness ==
  /\ setupPc = "done"
  /\ Len(summaryResponse[1].Countries) = 2
  /\ summaryResponse[1].Countries[1].TotalConfirmed = 1
  /\ summaryResponse[1].Countries[2].TotalDeaths = 1
  /\ confirmedTotal = "3"
  /\ deathsTotal = "1"
  /\ recoveredTotal = "6"

\* ---- order of the render steps ----

RenderOrder ==
  <<"deathsList", "deathsTotal", "recoveredList", "recoveredTotal", "chart">>

\* C14: the step that settles the last fetch of a click runs the render steps
\* in the order deaths list, deaths counter, recovered list, recovered counter,
\* chart: the writes it adds are the first n steps of that order, all five
\* when the invocation runs to its end.
C14_RenderStepsInOrder ==
  [][\A c \in DOMAIN calls :
       CompletesFetches(c) =>
         LET n == Len(renderLog') - Len(renderLog)
         IN /\ n \in 0..Len(RenderOrder)
            /\ SubSeq(renderLog', 1, Len(renderLog)) = renderLog
            /\ \A k \in 1..n :
                 renderLog'[Len(renderLog) + k] = [call |-> c, step |-> RenderOrder[k]]
            /\ calls'[c].pc = "done" => n = Len(RenderOrder)]_vars

\* an invocation ran to its end and its five writes are the last five logged
C14_Witness ==
  /\ Len(renderLog) >= Len(RenderOrder)
  /\ \E c \in DOMAIN calls :
       /\ calls[c].pc = "done"
       /\ \A k \in 1..Len(RenderOrder) :
            renderLog[Len(renderLog) - Len(RenderOrder) + k]
              = [call |-> c, step |-> RenderOrder[k]]

\* ---- the page after a failed fetch ----

\* C15 as stated: when a fetch of an accepted click on a rank-list entry has
\* failed, the items of both detail lists, both counters and the chart are as
\* they were before that click (a spinner may remain in a list), and the flag
\* is still set.
C15_FailureLeavesPageAsBefore ==
  \A c \in DOMAIN calls :
    (calls[c].pc = "rejected" /\ OnEntry(c)) =>
      LET b == calls[c].before[1]
      IN /\ ListItems(deathsList) = ListItems(b.deathsList)
         /\ ListItems(recoveredList) = ListItems(b.recoveredList)
         /\ deathsTotal = b.deathsTotal
         /\ recoveredTotal = b.recoveredTotal
         /\ charts = b.charts
         /\ isDeathLoading

\* C15 amended: when a fetch of an accepted click has failed, the chart is as
\* it was before that click and so are both counters unless the summary was
\* rendered in between, each detail list holds its spinner and nothing else
\* (the items shown before the click are gone), and the flag is still set.
C15_FailureKeepsCountersAndChart ==
  \A c \in DOMAIN calls :
    calls[c].pc = "rejected" =>
      LET b == calls[c].before[1]
      IN /\ deathsList = <<deathSpinner>>
         /\ recoveredList = <<recoveredSpinner>>
         /\ charts = b.charts
         /\ setupPc = b.setupPc => /\ deathsTotal = b.deathsTotal
                                   /\ recoveredTotal = b.recoveredTotal
         /\ isDeathLoading

\* a fetch failed for a click made on a page that showed an earlier click's
\* items, counters and chart
C15_Witness ==
  \E c \in DOMAIN calls :
    /\ calls[c].pc = "rejected"
    /\ OnEntry(c)
    /\ ListItems(calls[c].before[1].deathsList) # <<>>
    /\ ListItems(calls[c].before[1].recoveredList) # <<>>
    /\ calls[c].before[1].charts # <<>>
    /\ deathsList = <<deathSpinner>>

\* ---- the detail lists after a completed click ----

\* the list holds one item per entry of the response body and nothing else
HoldsExactly(list, body) ==
  /\ Len(list) = Len(body)
  /\ \E place \in Permutations(Len(body)) :
       \A k \in 1..Len(body) :
         list[k] = [tag |-> "li", span |-> toString(body[place[k]].Cases),
                    p |-> dateText(body[place[k]].Date)]

\* C16: after any sequence of clicks, while the latest accepted click is one
\* whose sequence ran to its end, the deaths list holds exactly the items of
\* that click's deaths response and the recovered list exactly those of its
\* recovered response: no item of an earlier click and no spinner.
C16_ListsHoldLatestClickOnly ==
  (calls # <<>> /\ calls[Len(calls)].pc = "done") =>
    /\ \E i \in RequestsOf(Len(calls), "deaths") :
         HoldsExactly(deathsList, requests[i].data)
    /\ \E i \in RequestsOf(Len(calls), "recovered") :
         HoldsExactly(recoveredList, requests[i].data)

\* a second click has run to its end after a first one that rendered items
C16_Witness ==
  /\ Len(calls) = 2
  /\ calls[1].pc = "done"
  /\ calls[2].pc = "done"
  /\ deathsList # <<>>
  /\ recoveredList # <<>>
  /\ ~isDeathLoading

\* ---- chart instances ----

\* C17: at most one chart instance exists on the canvas at any time, however
\* many clicks on rank-list entries have been rendered.
C17_AtMostOneChart ==
  (\A c \in DOMAIN calls : OnEntry(c)) => Len(charts) <= 1

\* ---- a fetch that never settles ----

\* C18: for as long as a request stays unsettled the flag stays set and every
\* click delivered is ignored: no invocation starts, no request is issued and
\* the detail lists are left as they are.
C18_HungFetchBlocksClicks ==
  [][\A i \in DOMAIN requests :
       (requests[i].state = "pending" /\ requests'[i].state = "pending") =>
         /\ isDeathLoading
         /\ isDeathLoading'
         /\ calls' = calls
         /\ requests' = requests
         /\ deathsList' = deathsList
         /\ recoveredList' = recoveredList]_vars

\* the first click's fetch is still unsettled after every other event has
\* happened: the summary is rendered and all later clicks were ignored
C18_Witness ==
  /\ Pending # {}
  /\ Len(calls) = 1
  /\ clicks = MaxClicks
  /\ setupPc = "done"
  /\ isDeathLoading

\* ---- spinners and the flag ----

\* C19: in every state reached by clicks on rank-list entries the spinners are
\* in both detail lists exactly when isDeathLoading is true.
C19_SpinnersIffLoading ==
  (\A c \in DOMAIN calls : OnEntry(c)) =>
    ((/\ hasChild(deathsList, deathSpinner)
      /\ hasChild(recoveredList, recoveredSpinner)) <=> isDeathLoading)

\* ---- the summary render and the per-country counters ----

\* a per-country counter has been written
CountryCounterWritten ==
  \E k \in DOMAIN renderLog : renderLog[k].step \in {"deathsTotal", "recoveredTotal"}

\* C20: however the summary fetch interleaves with a click's fetches, the
\* summary is never rendered after a per-country counter was written, and once
\* an invocation has run to its end only a step that completes an invocation
\* changes the deaths or the recovered counter.
C20_WorldWritesPrecedeCountryWrites ==
  [][/\ (setupPc = "awaitSummary" /\ setupPc' = "done") => ~CountryCounterWritten
     /\ ((\E c \in DOMAIN calls : calls[c].pc = "done")
          /\ ~\E c \in DOMAIN calls : CompletesFetches(c))
        => /\ deathsTotal' = deathsTotal
           /\ recoveredTotal' = recoveredTotal]_vars

====
